---- MODULE Spec2Model ----
(***************************************************************************)
(* Model of the gcm client of src/client.go: Client.SendMessage splits a   *)
(* message into wire messages (Message.encode), and Client.send performs   *)
(* one HTTP exchange per wire message and maps its outcome to a Response.  *)
(* The transport and the gateway are the environment: each exchange's      *)
(* outcome is chosen nondeterministically.                                 *)
(***************************************************************************)
EXTENDS Integers, Sequences, FiniteSets, TLC

VARIABLES
    client,              \* the Client struct (APIKey, Gateway)
    message,             \* the *Message handed to SendMessage (may be nil)
    maxRegistrationIDs,  \* the batch limit MaxRegistrationIDs used by encode
    pc,                  \* "ready" | "loop" | "done" | "panic"
    messages,            \* SendMessage's local: the encoded wire messages
    responses,           \* SendMessage's local: the responses slice
    idx,                 \* SendMessage's loop index (1-based)
    returned,            \* what SendMessage returned (once pc = "done")
    log                  \* history: one entry per call of send

vars == <<client, message, maxRegistrationIDs, pc, messages, responses, idx,
          returned, log>>

----------------------------------------------------------------------------
(* Bounds of the model *)

\* longest registration id list of a message
MaxIDs == 3
\* largest batch limit tried
MaxLimit == 2

(* Values the inputs are drawn from *)

RegIDs == {"A", "B"}

\* Payloads: one json.Marshal accepts and one it rejects (e.g. a channel value)
Payloads == {"data", "unmarshalable"}

\* Gateway strings: the production end point and one url.Parse rejects
Gateways == {"https://android.googleapis.com/gcm/send", ":"}

StatusOK == 200
StatusUnauthorized == 401

\* Status codes the gateway answers with
Statuses == {StatusOK, StatusUnauthorized, 500, 503}

\* Error kinds written into Result.Error by send
Timeout == "Timeout"
AuthenticationError == "AuthenticationError"
InternalServerError == "InternalServerError"
InvalidJSON == "InvalidJSON"

----------------------------------------------------------------------------
(* Data shapes *)

NilMessage == [isNil |-> TRUE, RegistrationIDs |-> <<>>, Data |-> "none"]

Message(ids, data) == [isNil |-> FALSE, RegistrationIDs |-> ids, Data |-> data]

\* Result{}: the zero value of a Result
ZeroResult == [MessageID |-> "", CanonicalID |-> "", Error |-> "", RegistrationID |-> ""]

\* (*Response)(nil): the zero value of an element of make([]*Response, n)
NilResponse == [isNil |-> TRUE, MulticastID |-> 0, Success |-> 0, Failure |-> 0,
                CanonicalIDs |-> 0, Results |-> <<>>]

\* Response{}: the zero value json.Unmarshal fills in
ZeroResponse == [NilResponse EXCEPT !.isNil = FALSE]

Min(a, b) == IF a < b THEN a ELSE b

SeqsUpTo(S, n) == UNION {[1..k -> S] : k \in 0..n}

----------------------------------------------------------------------------
(* The gateway's answers *)

\* One entry of the "results" array of a 200 body; "" is an omitted field
BodyResults ==
    { [message_id |-> "m1", registration_id |-> "R9", error |-> ""],
      [message_id |-> "",   registration_id |-> "",   error |-> "NotRegistered"] }

\* A 200 body that is valid JSON, with the given results array
Body(rs) == [multicast_id |-> 123,
             success |-> Cardinality({i \in 1..Len(rs) : rs[i].message_id # ""}),
             failure |-> Cardinality({i \in 1..Len(rs) : rs[i].error # ""}),
             canonical_ids |-> Cardinality({i \in 1..Len(rs) : rs[i].registration_id # ""}),
             results |-> rs]

NoBody == [multicast_id |-> 0, success |-> 0, failure |-> 0, canonical_ids |-> 0,
           results |-> <<>>]

\* The results arrays the gateway may answer a batch of n ids with: one entry
\* short, exactly n, one entry too many
BodiesFor(n) == {Body(rs) : rs \in UNION {[1..k -> BodyResults] : k \in ((n-1)..(n+1)) \cap Nat}}

\* No response object: HTTPClient.Do returned nil
NoResponse == [resp |-> FALSE, status |-> 0, readOK |-> FALSE, parseOK |-> FALSE,
               body |-> NoBody]

HTTPResponse(s, r, p, b) == [resp |-> TRUE, status |-> s, readOK |-> r, parseOK |-> p,
                             body |-> b]

\* Every outcome of the HTTP exchange for a batch of n ids
Exchanges(n) ==
    {NoResponse}
    \cup {HTTPResponse(s, FALSE, FALSE, NoBody) : s \in Statuses \ {StatusOK}}
    \cup {HTTPResponse(StatusOK, FALSE, FALSE, NoBody),
          HTTPResponse(StatusOK, TRUE, FALSE, NoBody)}
    \cup {HTTPResponse(StatusOK, TRUE, TRUE, b) : b \in BodiesFor(n)}

----------------------------------------------------------------------------
(* Message.encode: consecutive chunks of at most limit registration ids,    *)
(* each carrying the payload of the original message                        *)

\* Variant: the trailing partial chunk is lost
NumChunksFloor(k, limit) == k \div limit

NumChunks(k, limit) == (k + limit - 1) \div limit

encode(m, limit) ==
    [i \in 1..NumChunks(Len(m.RegistrationIDs), limit) |->
        [m EXCEPT !.RegistrationIDs =
            SubSeq(m.RegistrationIDs, (i - 1) * limit + 1,
                   Min(i * limit, Len(m.RegistrationIDs)))]]

----------------------------------------------------------------------------
(* Client.send *)

\* json.Marshal(message); the error is dropped and data is nil on failure
NilData == [isNil |-> TRUE, registration_ids |-> <<>>, data |-> "none"]

Marshal(m) == IF m.Data = "unmarshalable" THEN NilData
              ELSE [isNil |-> FALSE, registration_ids |-> m.RegistrationIDs,
                    data |-> m.Data]

\* http.NewRequest returns a nil request when url.Parse rejects the gateway
NewRequestIsNil(gateway) == gateway = ":"

\* json.Unmarshal(body, &response): the body's fields by their JSON names; the
\* body carries no field for Result.RegistrationID, which keeps its zero value
UnmarshalResult(r) == [ZeroResult EXCEPT !.MessageID = r.message_id,
                                         !.CanonicalID = r.registration_id,
                                         !.Error = r.error]

Unmarshal(body) ==
    [ZeroResponse EXCEPT !.MulticastID = body.multicast_id,
                         !.Success = body.success,
                         !.Failure = body.failure,
                         !.CanonicalIDs = body.canonical_ids,
                         !.Results = [i \in 1..Len(body.results) |->
                                         UnmarshalResult(body.results[i])]]

\* The Response literal of the three failure branches, Results still zero
ManualResponse(m) ==
    [isNil |-> FALSE, MulticastID |-> -1, Success |-> 0,
     Failure |-> Len(m.RegistrationIDs), CanonicalIDs |-> 0,
     Results |-> [i \in 1..Len(m.RegistrationIDs) |-> ZeroResult]]

\* Variant: the registration id is not written into the Result
FillResultsNoID(response, m, errorMessage) ==
    [response EXCEPT !.Results =
        [i \in 1..Len(m.RegistrationIDs) |-> [ZeroResult EXCEPT !.Error = errorMessage]]]

\* for idx, registrationID := range ids { Results[idx] = Result{Error, RegistrationID} }
FillResults(response, m, errorMessage) ==
    [response EXCEPT !.Results =
        [i \in 1..Len(m.RegistrationIDs) |->
            [ZeroResult EXCEPT !.Error = errorMessage,
                               !.RegistrationID = m.RegistrationIDs[i]]]]

\* httpResponse == nil
TimeoutResponse(m) == FillResults(ManualResponse(m), m, Timeout)

\* Variant: 401 is not told apart from the other statuses
StatusErrorMessageNo401(status) == InternalServerError

\* errorMessage of the non-200 branch
StatusErrorMessage(status) ==
    IF status = StatusUnauthorized THEN AuthenticationError ELSE InternalServerError

\* httpResponse.StatusCode != http.StatusOK
StatusResponse(m, status) == FillResults(ManualResponse(m), m, StatusErrorMessage(status))

\* the body could not be read or parsed
InvalidJSONResponse(m) == FillResults(ManualResponse(m), m, InvalidJSON)

\* response.Results[idx].RegistrationID = registrationID panics with an index
\* out of range as soon as the ids outnumber the parsed results
StampPanics(response, m) == Len(m.RegistrationIDs) > Len(response.Results)

\* for idx, registrationID := range ids { Results[idx].RegistrationID = registrationID }
Stamp(response, m) ==
    [response EXCEPT !.Results =
        [i \in 1..Len(response.Results) |->
            IF i <= Len(m.RegistrationIDs)
            THEN [response.Results[i] EXCEPT !.RegistrationID = m.RegistrationIDs[i]]
            ELSE response.Results[i]]]

\* Variant: Close is deferred only after the status check
BodyClosedAfterStatus(ex) == ex.resp /\ ex.status = StatusOK

\* The response body when send is left: closed by the deferred Close once a
\* response object exists, read to its end by ioutil.ReadAll only
BodyClosed(ex) == ex.resp
BodyDrained(ex) == ex.resp /\ ex.status = StatusOK /\ ex.readOK

NoOutcome == [panicked |-> TRUE, attempted |-> FALSE, data |-> NilData,
              response |-> NilResponse, closed |-> FALSE, drained |-> FALSE]

\* One call of send on wire message m, the exchange ending as ex
send(c, m, ex) ==
    IF NewRequestIsNil(c.Gateway)
    THEN NoOutcome   \* request.Header on a nil request: nil pointer dereference
    ELSE LET base == [NoOutcome EXCEPT !.panicked = FALSE, !.attempted = TRUE,
                                       !.data = Marshal(m),
                                       !.closed = BodyClosed(ex),
                                       !.drained = BodyDrained(ex)]
         IN  IF ~ex.resp
             THEN [base EXCEPT !.response = TimeoutResponse(m)]
             ELSE IF ex.status # StatusOK
             THEN [base EXCEPT !.response = StatusResponse(m, ex.status)]
             ELSE IF ex.readOK /\ ex.parseOK
             THEN IF StampPanics(Unmarshal(ex.body), m)
                  THEN [base EXCEPT !.panicked = TRUE]
                  ELSE [base EXCEPT !.response = Stamp(Unmarshal(ex.body), m)]
             ELSE [base EXCEPT !.response = InvalidJSONResponse(m)]

----------------------------------------------------------------------------
(* Client.SendMessage *)

NotReturned == [returned |-> FALSE, isNil |-> FALSE, value |-> <<>>]
ReturnedNil == [returned |-> TRUE, isNil |-> TRUE, value |-> <<>>]
Returned(rs) == [returned |-> TRUE, isNil |-> FALSE, value |-> rs]

Init ==
    /\ client \in [APIKey : {"key"}, Gateway : Gateways]
    /\ message \in {NilMessage}
                   \cup {Message(ids, d) : ids \in SeqsUpTo(RegIDs, MaxIDs), d \in Payloads}
    /\ maxRegistrationIDs \in 1..MaxLimit
    /\ pc = "ready"
    /\ messages = <<>>
    /\ responses = <<>>
    /\ idx = 1
    /\ returned = NotReturned
    /\ log = <<>>

\* Variant: no nil check, so encode dereferences the nil message
SendMessageNoNilCheck ==
    /\ pc = "ready"
    /\ IF message.isNil
       THEN /\ pc' = "panic"
            /\ UNCHANGED <<messages, responses, returned>>
       ELSE LET ms == encode(message, maxRegistrationIDs)
            IN  /\ messages' = ms
                /\ responses' = [i \in 1..Len(ms) |-> NilResponse]
                /\ IF Len(ms) = 0
                   THEN pc' = "done" /\ returned' = Returned(<<>>)
                   ELSE pc' = "loop" /\ UNCHANGED returned
    /\ UNCHANGED <<client, message, maxRegistrationIDs, idx, log>>

\* Entry of SendMessage up to the loop: the nil check, encode, make
SendMessage ==
    /\ pc = "ready"
    /\ IF message.isNil
       THEN /\ pc' = "done"
            /\ returned' = ReturnedNil
            /\ UNCHANGED <<messages, responses>>
       ELSE LET ms == encode(message, maxRegistrationIDs)
            IN  /\ messages' = ms
                /\ responses' = [i \in 1..Len(ms) |-> NilResponse]
                /\ IF Len(ms) = 0
                   THEN pc' = "done" /\ returned' = Returned(<<>>)
                   ELSE pc' = "loop" /\ UNCHANGED returned
    /\ UNCHANGED <<client, message, maxRegistrationIDs, idx, log>>

\* One iteration of the loop: responses[idx] = m.send(message); the return
\* follows the last iteration
SendNext ==
    /\ pc = "loop"
    /\ \E ex \in Exchanges(Len(messages[idx].RegistrationIDs)) :
          LET out == send(client, messages[idx], ex)
          IN  /\ log' = Append(log, [wire |-> messages[idx],
                                     ex |-> IF out.attempted THEN ex ELSE NoResponse,
                                     out |-> out])
              /\ IF out.panicked
                 THEN /\ pc' = "panic"
                      /\ UNCHANGED <<responses, idx, returned>>
                 ELSE /\ responses' = [responses EXCEPT ![idx] = out.response]
                      /\ idx' = idx + 1
                      /\ IF idx = Len(messages)
                         THEN pc' = "done" /\ returned' = Returned(responses')
                         ELSE pc' = "loop" /\ UNCHANGED returned
    /\ UNCHANGED <<client, message, maxRegistrationIDs, messages>>

Next == SendMessage \/ SendNext

Spec == Init /\ [][Next]_vars

----------------------------------------------------------------------------
(* Vocabulary of the properties *)

\* SendMessage has been entered with a non-nil message and has ended
Ended == pc \in {"done", "panic"} /\ ~message.isNil

\* The calls of send that reached HTTPClient.Do
Attempted(e) == e.out.attempted
Attempts == SelectSeq(log, Attempted)

\* The classes of exchange outcome
TransportFailure(ex) == ~ex.resp
Non200(ex) == ex.resp /\ ex.status # StatusOK
BadBody(ex) == ex.resp /\ ex.status = StatusOK /\ ~(ex.readOK /\ ex.parseOK)
ValidBody(ex) == ex.resp /\ ex.status = StatusOK /\ ex.readOK /\ ex.parseOK

\* A returned Response of the synthetic shape whose Results all carry kind
Synthetic(e, kind) ==
    /\ ~e.out.panicked
    /\ e.out.response.MulticastID = -1
    /\ Len(e.out.response.Results) = Len(e.wire.RegistrationIDs)
    /\ \A i \in 1..Len(e.out.response.Results) : e.out.response.Results[i].Error = kind

RECURSIVE Concat(_)
Concat(ss) == IF ss = <<>> THEN <<>> ELSE Head(ss) \o Concat(Tail(ss))

ResultIDs(r) == [i \in 1..Len(r.Results) |-> r.Results[i].RegistrationID]

----------------------------------------------------------------------------
(* Properties *)

\* C1: whatever the outcome of the exchange, send returns a Response with
\* exactly as many Results as the wire message has registration ids.
C1_ResultsMatchIDs ==
    \A i \in 1..Len(log) :
        Attempted(log[i]) =>
            /\ ~log[i].out.panicked
            /\ Len(log[i].out.response.Results) = Len(log[i].wire.RegistrationIDs)

\* C2: for a non-nil message SendMessage never panics, and once it has ended
\* it has returned a list with one non-nil Response per wire message.
C2_NeverFailsOutright ==
    /\ pc # "panic"
    /\ Ended => /\ returned.returned
                /\ ~returned.isNil
                /\ Len(returned.value) = Len(messages)
                /\ \A i \in 1..Len(returned.value) : ~returned.value[i].isNil

\* C3: the exchange is classified by precedence: no response object gives
\* Timeout; else status 401 gives AuthenticationError; else any other status
\* than 200 gives InternalServerError; else an unreadable or unparsable body
\* gives InvalidJSON; every Result of the batch carries that one kind, and
\* only a 200 with a parsable body gives a Response taken from the body.
C3_Precedence ==
    \A i \in 1..Len(log) :
        LET e == log[i] IN
        Attempted(e) =>
            /\ TransportFailure(e.ex) => Synthetic(e, Timeout)
            /\ (e.ex.resp /\ e.ex.status = StatusUnauthorized)
                   => Synthetic(e, AuthenticationError)
            /\ (Non200(e.ex) /\ e.ex.status # StatusUnauthorized)
                   => Synthetic(e, InternalServerError)
            /\ BadBody(e.ex) => Synthetic(e, InvalidJSON)
            /\ (ValidBody(e.ex) /\ ~e.out.panicked)
                   => e.out.response.MulticastID = e.ex.body.multicast_id
            /\ (~e.out.panicked /\ e.out.response.MulticastID # -1) => ValidBody(e.ex)

\* A 401 answer to a batch of two ids, both Results AuthenticationError, and a
\* 503 answer to another batch, its Results InternalServerError
C3_Witness ==
    /\ \E i \in 1..Len(log) :
          /\ log[i].ex.resp /\ log[i].ex.status = StatusUnauthorized
          /\ Len(log[i].wire.RegistrationIDs) = 2
          /\ Synthetic(log[i], AuthenticationError)
    /\ \E i \in 1..Len(log) :
          /\ log[i].ex.resp /\ log[i].ex.status = 503
          /\ Synthetic(log[i], InternalServerError)

\* C4: on the three failure paths the Response is MulticastID -1, Success 0,
\* CanonicalIDs 0, Failure = number of ids, and Results[i] names the i-th id
\* with a non-empty Error and no message id or canonical id.
C4_SyntheticShape ==
    \A i \in 1..Len(log) :
        LET e == log[i]
            r == e.out.response
            ids == e.wire.RegistrationIDs
        IN  (Attempted(e) /\ (TransportFailure(e.ex) \/ Non200(e.ex) \/ BadBody(e.ex))) =>
                /\ ~e.out.panicked
                /\ ~r.isNil
                /\ r.MulticastID = -1
                /\ r.Success = 0
                /\ r.CanonicalIDs = 0
                /\ r.Failure = Len(ids)
                /\ Len(r.Results) = Len(ids)
                /\ \A j \in 1..Len(ids) :
                      /\ r.Results[j].RegistrationID = ids[j]
                      /\ r.Results[j].Error # ""
                      /\ r.Results[j].MessageID = ""
                      /\ r.Results[j].CanonicalID = ""

\* A transport failure on the batch [A, B]: Failure 2, Timeout for A then B
C4_Witness ==
    \E i \in 1..Len(log) :
        /\ Attempted(log[i]) /\ TransportFailure(log[i].ex)
        /\ log[i].wire.RegistrationIDs = <<"A", "B">>
        /\ log[i].out.response.Failure = 2
        /\ log[i].out.response.Results =
               << [ZeroResult EXCEPT !.Error = Timeout, !.RegistrationID = "A"],
                  [ZeroResult EXCEPT !.Error = Timeout, !.RegistrationID = "B"] >>

\* C5: on a 200 with a valid JSON body the returned Response takes multicast
\* id, counts and each Result's message id, canonical id and error from the
\* body, and for every index i of the wire message Results[i].RegistrationID
\* is the wire message's i-th registration id.
C5_StampedByPosition ==
    \A i \in 1..Len(log) :
        LET e == log[i]
            r == e.out.response
            b == e.ex.body
            ids == e.wire.RegistrationIDs
        IN  (Attempted(e) /\ ValidBody(e.ex)) =>
                /\ ~e.out.panicked
                /\ r.MulticastID = b.multicast_id
                /\ r.Success = b.success
                /\ r.Failure = b.failure
                /\ r.CanonicalIDs = b.canonical_ids
                /\ Len(r.Results) = Len(b.results)
                /\ \A j \in 1..Len(b.results) :
                      /\ r.Results[j].MessageID = b.results[j].message_id
                      /\ r.Results[j].CanonicalID = b.results[j].registration_id
                      /\ r.Results[j].Error = b.results[j].error
                /\ Len(r.Results) >= Len(ids)
                /\ \A j \in 1..Len(ids) : r.Results[j].RegistrationID = ids[j]

\* C6: a message with k ids and limit L encodes to ceil(k/L) wire messages
\* (none when k = 0), each with 1..L ids, whose id lists are consecutive
\* chunks that concatenate to the original list, each with the same payload.
C6_EncodePartitions ==
    (pc # "ready" /\ ~message.isNil) =>
        LET k == Len(message.RegistrationIDs)
            L == maxRegistrationIDs
            n == Len(messages)
        IN  /\ n * L >= k
            /\ (n - 1) * L < k
            /\ \A i \in 1..n :
                  /\ Len(messages[i].RegistrationIDs) \in 1..L
                  /\ i < n => Len(messages[i].RegistrationIDs) = L
                  /\ messages[i].Data = message.Data
                  /\ ~messages[i].isNil
            /\ Concat([i \in 1..n |-> messages[i].RegistrationIDs])
                   = message.RegistrationIDs

\* Three ids under limit 2: two wire messages, of two ids and of one
C6_Witness ==
    /\ pc # "ready"
    /\ Len(message.RegistrationIDs) = 3
    /\ maxRegistrationIDs = 2
    /\ Len(messages) = 2
    /\ Len(messages[1].RegistrationIDs) = 2
    /\ Len(messages[2].RegistrationIDs) = 1

\* C7: a SendMessage call whose message encodes to n wire messages makes
\* exactly n HTTP attempts, the i-th for the i-th wire message, whatever the
\* outcome of the earlier ones.
C7_EachBatchAttemptedOnce ==
    Ended =>
        /\ Len(Attempts) = Len(messages)
        /\ \A i \in 1..Len(Attempts) : Attempts[i].wire = messages[i]

\* C8: SendMessage returns ceil(k/L) Responses, the i-th with as many Results
\* as the i-th batch has ids, and the RegistrationIDs of all Results read in
\* order are the message's original id list.
C8_ResponsesCoverIDs ==
    (pc = "done" /\ ~message.isNil) =>
        LET rs == returned.value IN
        /\ Len(rs) = Len(messages)
        /\ Len(rs) * maxRegistrationIDs >= Len(message.RegistrationIDs)
        /\ (Len(rs) - 1) * maxRegistrationIDs < Len(message.RegistrationIDs)
        /\ \A i \in 1..Len(rs) :
              Len(rs[i].Results) = Len(messages[i].RegistrationIDs)
        /\ Concat([i \in 1..Len(rs) |-> ResultIDs(rs[i])]) = message.RegistrationIDs

\* C9: SendMessage on a nil message returns an empty collection, encodes
\* nothing and makes no HTTP call.
C9_NilIsNoOp ==
    (pc # "ready" /\ message.isNil) =>
        /\ pc = "done"
        /\ returned.returned
        /\ Len(returned.value) = 0
        /\ messages = <<>>
        /\ log = <<>>

\* SendMessage(nil) has returned
C9_Witness == pc = "done" /\ message.isNil /\ returned = ReturnedNil

\* C10 as stated: whenever send got a response object, its body is fully
\* drained and closed when send is left, on every path.
C10_DrainedAndClosed ==
    \A i \in 1..Len(log) :
        log[i].ex.resp => (log[i].out.closed /\ log[i].out.drained)

\* C10 amended: whenever send got a response object, its body is closed when
\* send is left, on every path; it has been read to its end exactly on the
\* 200 path whose read succeeded, and not on the non-200 early return nor
\* after a failed read.
C10_ClosedDrainedOn200Read ==
    \A i \in 1..Len(log) :
        log[i].ex.resp =>
            /\ log[i].out.closed
            /\ log[i].out.drained <=> (log[i].ex.status = StatusOK /\ log[i].ex.readOK)

\* A 503 answer: its body closed but never read; and a parsed 200: read and closed
C10_Witness ==
    /\ \E i \in 1..Len(log) :
          /\ log[i].ex.resp /\ log[i].ex.status = 503
          /\ log[i].out.closed /\ ~log[i].out.drained
    /\ \E i \in 1..Len(log) :
          /\ ValidBody(log[i].ex)
          /\ log[i].out.closed /\ log[i].out.drained

====
